---- MODULE Spec2Model ----
(***************************************************************************)
(* Model of the document Reader and of the resume parsing pipeline of      *)
(* src/app/lib/parse-resume-from-pdf: parseDocumentWithUnstructured,       *)
(* convertUnstructuredToTextItems, readDocument, readPdf,                  *)
(* parseResumeFromPdf and parseResumeFromFile.                             *)
(*                                                                         *)
(* An optional JavaScript value (undefined or a value) is a sequence of    *)
(* length 0 or 1.  A string is the sequence of its characters, an error    *)
(* message the sequence of the pieces its template literals join.          *)
(***************************************************************************)
EXTENDS Integers, Sequences, FiniteSets, TLC

VARIABLES
    pc,            \* position of the one invocation of the pipeline
    entry,         \* which entry point was called
    apiKey,        \* process.env.NEXT_PUBLIC_UNSTRUCTURED_API_KEY is set
    requests,      \* requests sent to the parsing service
    readCalls,     \* calls of readDocument
    elements,      \* optional: the body the service answered with
    textItems,     \* optional: what the Reader resolved with
    lines,         \* optional: output of groupTextItemsIntoLines
    sections,      \* optional: output of groupLinesIntoSections
    resume,        \* optional: the value the invocation resolved with
    calls,         \* log of the pipeline stage calls, in call order
    raised,        \* optional: the value the failing operation raised
    failedAt,      \* the operation that raised it
    error          \* optional: the value the invocation rejected with

vars == <<pc, entry, apiKey, requests, readCalls, elements, textItems, lines,
          sections, resume, calls, raised, failedAt, error>>

----------------------------------------------------------------------------
(* Bounds of the model.                                                    *)

MaxElements == 2

MaxTextLen == 2

MaxPoints == 2

(* Program constants.                                                      *)

DefaultWidth == 100

DefaultHeight == 12

DefaultPageHeight == 792

----------------------------------------------------------------------------
(* Values.                                                                 *)

None == <<>>

Some(v) == <<v>>

SeqsUpTo(S, n) == UNION {[1..k -> S] : k \in 0..n}

Chars == {"a", " "}

Whitespace == {" "}

Texts == SeqsUpTo(Chars, MaxTextLen)

\* Two corners of a box, top-left origin: the second is right of and above
\* the first, so neither coordinate is monotone in the list position.
PointValues == {<<36, 700>>, <<540, 120>>}

PointLists == SeqsUpTo(PointValues, MaxPoints)

LayoutHeights == {None, Some(0), Some(1000)}

\* interface UnstructuredElement: metadata.coordinates
CoordinateValues ==
    {[points |-> p, layout_height |-> h] :
        p \in {None} \cup {Some(l) : l \in PointLists}, h \in LayoutHeights}

MetadataValues ==
    {None, Some([coordinates |-> None])}
        \cup {Some([coordinates |-> Some(c)]) : c \in CoordinateValues}

\* Elements that vary in their text.
TextElements ==
    {[text |-> t, metadata |-> None] : t \in {None} \cup {Some(s) : s \in Texts}}

\* Elements that vary in their position.
PlacedElements ==
    {[text |-> Some(<<"a">>), metadata |-> m] : m \in MetadataValues}
        \cup {[text |-> Some(<<" ">>), metadata |-> m] :
                m \in {Some([coordinates |-> Some(
                    [points |-> Some(<<>>), layout_height |-> None])])}}

UnstructuredElement == TextElements \cup PlacedElements

\* What the pipeline specification lets the service answer.
ServiceElement ==
    TextElements
        \cup {[text |-> Some(<<"a">>), metadata |-> Some([coordinates |-> Some(
                [points |-> Some(<<p>>), layout_height |-> None])])] :
                p \in PointValues}

----------------------------------------------------------------------------
(* Errors.                                                                 *)

KeyMessage == <<"Unstructured API key not configured. Please set NEXT_PUBLIC_UNSTRUCTURED_API_KEY environment variable.">>

RequestFailedPrefix == "Unstructured API request failed: "

ParsePrefix == "Failed to parse document with Unstructured API: "

ReadDocumentPrefix == "Failed to read document: "

ReadPdfPrefix == "Failed to read PDF from URL: "

NewError(message) == [isError |-> TRUE, message |-> message]

\* What fetch, Response.blob, Response.text and Response.json may reject
\* with: an Error, or a value that is no instance of Error.
Thrown ==
    {NewError(<<"Failed to fetch">>),
     [isError |-> FALSE, message |-> <<"not an Error">>]}

StatusLines == {"401 Unauthorized - denied", "500 Internal Server Error - "}

\* catch (error) { if (error instanceof Error) throw new Error(`<prefix>${error.message}`); throw error; }
Rethrow(prefix, e) ==
    IF e.isError THEN NewError(<<prefix>> \o e.message) ELSE e

----------------------------------------------------------------------------
(* convertUnstructuredToTextItems.                                         *)

Range(s) == {s[i] : i \in 1..Len(s)}

RECURSIVE TrimStart(_)
TrimStart(s) ==
    IF s # <<>> /\ Head(s) \in Whitespace THEN TrimStart(Tail(s)) ELSE s

RECURSIVE TrimEnd(_)
TrimEnd(s) ==
    IF s # <<>> /\ s[Len(s)] \in Whitespace
    THEN TrimEnd(SubSeq(s, 1, Len(s) - 1))
    ELSE s

\* String.prototype.trim
Trim(s) == TrimEnd(TrimStart(s))

\* Mutant: the test without the trim, element => element.text
KeepElementUntrimmed(element) ==
    /\ element.text # None
    /\ element.text[1] # <<>>

\* element => element.text && element.text.trim()
KeepElement(element) ==
    /\ element.text # None
    /\ element.text[1] # <<>>
    /\ Trim(element.text[1]) # <<>>

\* Math.min(...values), Math.max(...values) of a non-empty list
MathMin(values) == CHOOSE m \in Range(values) : \A v \in Range(values) : m <= v

MathMax(values) == CHOOSE m \in Range(values) : \A v \in Range(values) : m >= v

Xs(points) == [i \in 1..Len(points) |-> points[i][1]]

Ys(points) == [i \in 1..Len(points) |-> points[i][2]]

\* Mutant: coordinates.layout_height ?? 792, a layout height of 0 is kept
PageHeightNullish(coordinates) ==
    IF coordinates.layout_height = None
    THEN DefaultPageHeight
    ELSE coordinates.layout_height[1]

\* coordinates.layout_height || 792
PageHeight(coordinates) ==
    IF coordinates.layout_height = None \/ coordinates.layout_height[1] = 0
    THEN DefaultPageHeight
    ELSE coordinates.layout_height[1]

BoxX(points) == MathMin(Xs(points))

\* Mutant: the width taken from the last and the first point, as if the
\* points came ordered left to right
BoxWidthOfEnds(points) == points[Len(points)][1] - points[1][1]

BoxWidth(points) == MathMax(Xs(points)) - BoxX(points)

BoxHeight(points) == MathMax(Ys(points)) - MathMin(Ys(points))

BoxY(coordinates) == PageHeight(coordinates) - MathMax(Ys(coordinates.points[1]))

\* Mutant: the flag defaults to false
HasEOLFalse == FALSE

\* const hasEOL = true
HasEOL == TRUE

\* const metadata = element.metadata || {}; metadata.coordinates
CoordinatesOf(element) ==
    IF element.metadata = None THEN None ELSE element.metadata[1].coordinates

\* coordinates && coordinates.points && coordinates.points.length > 0
HasBox(coordinates) ==
    /\ coordinates # None
    /\ coordinates[1].points # None
    /\ Len(coordinates[1].points[1]) > 0

\* the callback of .map
ToTextItem(element) ==
    LET coordinates == CoordinatesOf(element)
        box == HasBox(coordinates)
    IN  [text     |-> element.text[1],
         x        |-> IF box THEN BoxX(coordinates[1].points[1]) ELSE 0,
         y        |-> IF box THEN BoxY(coordinates[1]) ELSE 0,
         width    |-> IF box THEN BoxWidth(coordinates[1].points[1]) ELSE DefaultWidth,
         height   |-> IF box THEN BoxHeight(coordinates[1].points[1]) ELSE DefaultHeight,
         fontName |-> "UnknownFont",
         hasEOL   |-> HasEOL]

\* Mutant: the fragments are collected in reverse
MapTextItemsReversed(kept) ==
    [i \in 1..Len(kept) |-> ToTextItem(kept[Len(kept) + 1 - i])]

MapTextItems(kept) == [i \in 1..Len(kept) |-> ToTextItem(kept[i])]

convertUnstructuredToTextItems(els) == MapTextItems(SelectSeq(els, KeepElement))

----------------------------------------------------------------------------
(* readDocument, after the service answered.                               *)

\* !textItem.hasEOL && textItem.text.trim() === ""
isEmptySpace(textItem) == ~textItem.hasEOL /\ Trim(textItem.text) = <<>>

NotEmptySpace(textItem) == ~isEmptySpace(textItem)

readDocumentResult(els) ==
    SelectSeq(convertUnstructuredToTextItems(els), NotEmptySpace)

\* The pipeline stages are imported; a stage's output is the stage applied
\* to its input.
StageOutput(stage, input) == [by |-> stage, of |-> input]

----------------------------------------------------------------------------
(* How a rejection travels through the layers.                             *)

\* parseDocumentWithUnstructured: catch
ParseCatch(e) == Rethrow(ParsePrefix, e)

\* Mutant: the catch of readDocument rethrows the error as it is
ReadDocumentCatchBare(e) == e

\* readDocument: catch
ReadDocumentCatch(e) == Rethrow(ReadDocumentPrefix, e)

\* readPdf: catch
ReadPdfCatch(e) == Rethrow(ReadPdfPrefix, e)

\* Mutant: return await readDocument(file), the rejection passes through
\* the catch of readPdf
ReadPdfReturnAwaited(e) == Rethrow(ReadPdfPrefix, e)

\* readPdf: return readDocument(file), the promise is not awaited inside
\* the try block, so its rejection does not pass through the catch
ReadPdfReturn(e) == e

\* What the Reader of the entry point rejects with when readDocument
\* rejected with e.
ReaderRejects(e) ==
    IF entry = "parseResumeFromPdf" THEN ReadPdfReturn(e) ELSE e

\* const textItems = await readPdf(fileUrl) / await readDocument(file),
\* outside any try block
AwaitReader(e) == e

\* Mutant: the failure is swallowed and the pipeline goes on with no
\* fragments
FailSwallowed(operation, original, rejection) ==
    /\ pc' = "groupTextItemsIntoLines"
    /\ raised' = Some(original)
    /\ failedAt' = operation
    /\ textItems' = Some(<<>>)
    /\ UNCHANGED <<entry, apiKey, requests, readCalls, elements, lines,
                   sections, resume, calls, error>>

\* The invocation ends in rejection; no stage has been called.
Fail(operation, original, rejection) ==
    /\ pc' = "rejected"
    /\ raised' = Some(original)
    /\ failedAt' = operation
    /\ error' = Some(AwaitReader(rejection))
    /\ UNCHANGED <<entry, apiKey, requests, readCalls, elements, textItems,
                   lines, sections, resume, calls>>

----------------------------------------------------------------------------
(* The invocation.                                                         *)

Responses == SeqsUpTo(ServiceElement, MaxElements)

TypeErrorValue == NewError(<<"elements.filter is not a function">>)

SyntaxErrorValue == NewError(<<"Unexpected token < in JSON at position 0">>)

Init ==
    /\ pc = "idle"
    /\ entry = "none"
    /\ apiKey \in BOOLEAN
    /\ requests = 0
    /\ readCalls = 0
    /\ elements = None
    /\ textItems = None
    /\ lines = None
    /\ sections = None
    /\ resume = None
    /\ calls = <<>>
    /\ raised = None
    /\ failedAt = "none"
    /\ error = None

\* parseResumeFromFile(file): await readDocument(file)
CallParseResumeFromFile ==
    /\ pc = "idle"
    /\ entry' = "parseResumeFromFile"
    /\ readCalls' = readCalls + 1
    /\ pc' = "readDocument"
    /\ UNCHANGED <<apiKey, requests, elements, textItems, lines, sections,
                   resume, calls, raised, failedAt, error>>

\* parseResumeFromPdf(fileUrl): await readPdf(fileUrl)
CallParseResumeFromPdf ==
    /\ pc = "idle"
    /\ entry' = "parseResumeFromPdf"
    /\ pc' = "readPdf"
    /\ UNCHANGED <<apiKey, requests, readCalls, elements, textItems, lines,
                   sections, resume, calls, raised, failedAt, error>>

\* readPdf: fetch(fileUrl), response.blob() or new File throws
ReadPdfDownloadFails ==
    \E e \in Thrown :
        /\ pc = "readPdf"
        /\ Fail("download", e, ReadPdfCatch(e))

\* readPdf: the file is downloaded, readDocument(file) is called
ReadPdfDownloadOk ==
    /\ pc = "readPdf"
    /\ readCalls' = readCalls + 1
    /\ pc' = "readDocument"
    /\ UNCHANGED <<entry, apiKey, requests, elements, textItems, lines,
                   sections, resume, calls, raised, failedAt, error>>

\* parseDocumentWithUnstructured: if (!apiKey) throw, before the try block
ApiKeyMissing ==
    /\ pc = "readDocument"
    /\ ~apiKey
    /\ Fail("apiKey", NewError(KeyMessage),
            ReaderRejects(ReadDocumentCatch(NewError(KeyMessage))))

\* parseDocumentWithUnstructured: await fetch(apiUrl, ...)
SendRequest ==
    /\ pc = "readDocument"
    /\ apiKey
    /\ requests' = requests + 1
    /\ pc' = "fetch"
    /\ UNCHANGED <<entry, apiKey, readCalls, elements, textItems, lines,
                   sections, resume, calls, raised, failedAt, error>>

\* Mutant: a rejected fetch is tried again
FetchRejectsRetried ==
    /\ pc = "fetch"
    /\ pc' = "readDocument"
    /\ UNCHANGED <<entry, apiKey, requests, readCalls, elements, textItems,
                   lines, sections, resume, calls, raised, failedAt, error>>

\* fetch rejects
FetchRejects ==
    \E e \in Thrown :
        /\ pc = "fetch"
        /\ Fail("fetch", e, ReaderRejects(ReadDocumentCatch(ParseCatch(e))))

\* !response.ok: throw new Error(`Unstructured API request failed: ...`)
ResponseNotOk ==
    \E s \in StatusLines :
        /\ pc = "fetch"
        /\ LET e == NewError(<<RequestFailedPrefix, s>>)
           IN  Fail("status", e, ReaderRejects(ReadDocumentCatch(ParseCatch(e))))

\* response.text() or response.json() rejects
ResponseBodyFails ==
    \E e \in Thrown \cup {SyntaxErrorValue} :
        /\ pc = "fetch"
        /\ Fail("body", e, ReaderRejects(ReadDocumentCatch(ParseCatch(e))))

\* The body parses but is no array of elements: elements.filter throws
\* inside the try block of readDocument.
ResponseMalformed ==
    /\ pc = "fetch"
    /\ Fail("convert", TypeErrorValue,
            ReaderRejects(ReadDocumentCatch(TypeErrorValue)))

\* The service answers with elements; readDocument converts, filters and
\* returns.
ResponseOk ==
    \E els \in Responses :
        /\ pc = "fetch"
        /\ elements' = Some(els)
        /\ textItems' = Some(readDocumentResult(els))
        /\ pc' = "groupTextItemsIntoLines"
        /\ UNCHANGED <<entry, apiKey, requests, readCalls, lines, sections,
                       resume, calls, raised, failedAt, error>>

LinesInput == textItems[1]

SectionsInput == lines[1]

\* Mutant: extractResumeFromSections(lines)
ExtractInputLines == lines[1]

ExtractInput == sections[1]

\* const lines = groupTextItemsIntoLines(textItems)
GroupTextItemsIntoLines ==
    /\ pc = "groupTextItemsIntoLines"
    /\ calls' = Append(calls, [stage |-> "groupTextItemsIntoLines", input |-> LinesInput])
    /\ lines' = Some(StageOutput("groupTextItemsIntoLines", LinesInput))
    /\ pc' = "groupLinesIntoSections"
    /\ UNCHANGED <<entry, apiKey, requests, readCalls, elements, textItems,
                   sections, resume, raised, failedAt, error>>

\* const sections = groupLinesIntoSections(lines)
GroupLinesIntoSections ==
    /\ pc = "groupLinesIntoSections"
    /\ calls' = Append(calls, [stage |-> "groupLinesIntoSections", input |-> SectionsInput])
    /\ sections' = Some(StageOutput("groupLinesIntoSections", SectionsInput))
    /\ pc' = "extractResumeFromSections"
    /\ UNCHANGED <<entry, apiKey, requests, readCalls, elements, textItems,
                   lines, resume, raised, failedAt, error>>

\* const resume = extractResumeFromSections(sections); return resume
ExtractResumeFromSections ==
    /\ pc = "extractResumeFromSections"
    /\ calls' = Append(calls, [stage |-> "extractResumeFromSections", input |-> ExtractInput])
    /\ resume' = Some(StageOutput("extractResumeFromSections", ExtractInput))
    /\ pc' = "resolved"
    /\ UNCHANGED <<entry, apiKey, requests, readCalls, elements, textItems,
                   lines, sections, raised, failedAt, error>>

Next ==
    \/ CallParseResumeFromFile
    \/ CallParseResumeFromPdf
    \/ ReadPdfDownloadFails
    \/ ReadPdfDownloadOk
    \/ ApiKeyMissing
    \/ SendRequest
    \/ FetchRejects
    \/ ResponseNotOk
    \/ ResponseBodyFails
    \/ ResponseMalformed
    \/ ResponseOk
    \/ GroupTextItemsIntoLines
    \/ GroupLinesIntoSections
    \/ ExtractResumeFromSections

Spec == Init /\ [][Next]_vars

----------------------------------------------------------------------------
(* convertUnstructuredToTextItems on its own.                              *)

ConvertInputs == SeqsUpTo(UnstructuredElement, MaxElements)

InitConvert ==
    /\ pc = "convert"
    /\ entry = "convertUnstructuredToTextItems"
    /\ apiKey = TRUE
    /\ requests = 0
    /\ readCalls = 0
    /\ elements \in {Some(els) : els \in ConvertInputs}
    /\ textItems = None
    /\ lines = None
    /\ sections = None
    /\ resume = None
    /\ calls = <<>>
    /\ raised = None
    /\ failedAt = "none"
    /\ error = None

Convert ==
    /\ pc = "convert"
    /\ textItems' = Some(convertUnstructuredToTextItems(elements[1]))
    /\ pc' = "converted"
    /\ UNCHANGED <<entry, apiKey, requests, readCalls, elements, lines,
                   sections, resume, calls, raised, failedAt, error>>

NextConvert == Convert

SpecConvert == InitConvert /\ [][NextConvert]_vars

----------------------------------------------------------------------------
(* Properties.  What they say of the input is stated on the input, not     *)
(* through the operators of the code.                                      *)

\* an element whose text is missing, empty or only whitespace
Blank(element) ==
    \/ element.text = None
    \/ \A i \in 1..Len(element.text[1]) : element.text[1][i] \in Whitespace

RECURSIVE NonBlank(_)
NonBlank(els) ==
    IF els = <<>> THEN <<>>
    ELSE (IF Blank(Head(els)) THEN <<>> ELSE <<Head(els)>>) \o NonBlank(Tail(els))

Ended == pc \in {"rejected", "resolved"}

ReaderEnded ==
    pc \in {"rejected", "groupTextItemsIntoLines", "groupLinesIntoSections",
            "extractResumeFromSections", "resolved"}

StageNames ==
    <<"groupTextItemsIntoLines", "groupLinesIntoSections", "extractResumeFromSections">>

\* C1: once an operation of the Reader has failed, the invocation is
\* rejected with an error, none of groupTextItemsIntoLines,
\* groupLinesIntoSections, extractResumeFromSections has been or is ever
\* called, and no resume is returned.
C1_ReaderFailureSkipsStages ==
    raised # None =>
        /\ pc = "rejected"
        /\ error # None
        /\ calls = <<>>
        /\ lines = None /\ sections = None /\ resume = None

C1_Witness ==
    /\ pc = "rejected"
    /\ entry = "parseResumeFromFile"
    /\ failedAt = "status"
    /\ requests = 1

\* C2: one call of readDocument sends at most one request to the parsing
\* service, exactly one once it has ended with the API key configured and
\* none with the key missing; there is no second request after a failure;
\* and it ends either failing, with no fragment list, or returning a list
\* with one fragment for every non-blank element of the whole response.
C2_SingleRequestResponse ==
    /\ readCalls <= 1
    /\ requests <= readCalls
    /\ (ReaderEnded /\ readCalls = 1) => requests = (IF apiKey THEN 1 ELSE 0)
    /\ raised # None => (textItems = None /\ Ended)
    /\ textItems # None =>
        /\ elements # None
        /\ raised = None /\ error = None
        /\ Len(textItems[1]) = Len(NonBlank(elements[1]))

C2_Witness ==
    /\ pc = "rejected"
    /\ failedAt = "fetch"
    /\ requests = 1
    /\ readCalls = 1

\* C3 as claimed: the error the caller receives is the very value the
\* failing operation raised.
C3_PropagatesUnchanged ==
    pc = "rejected" => error = raised

\* the prefixes the catch blocks on the way put before the message
LayerPrefixes(operation) ==
    CASE operation = "download" -> <<"Failed to read PDF from URL: ">>
      [] operation \in {"apiKey", "convert"} -> <<"Failed to read document: ">>
      [] OTHER -> <<"Failed to read document: ",
                    "Failed to parse document with Unstructured API: ">>

\* C3 amended: a failure of the Reader always rejects the invocation; a
\* raised value that is no Error arrives unchanged, an Error arrives as a
\* new Error whose message is the raised message behind the prefixes of
\* the catch blocks it passed.
C3_PropagatesPrefixed ==
    pc = "rejected" =>
        /\ raised # None /\ error # None
        /\ IF raised[1].isError
           THEN /\ error[1].isError
                /\ error[1].message = LayerPrefixes(failedAt) \o raised[1].message
           ELSE error[1] = raised[1]

C3_Witness ==
    /\ pc = "rejected"
    /\ failedAt = "body"
    /\ raised # None
    /\ raised[1].isError
    /\ Len(error[1].message) = 3

\* C4: the Reader is called once and each stage at most once, in the order
\* lines, sections, extract; a stage is called with the output of the stage
\* before it, and a resolved invocation has called all three and returns
\* the output of the extractor.
C4_StrictlyForward ==
    /\ readCalls <= 1
    /\ Len(calls) <= 3
    /\ \A i \in 1..Len(calls) : calls[i].stage = StageNames[i]
    /\ Len(calls) >= 1 =>
        /\ textItems # None
        /\ calls[1].input = textItems[1]
        /\ lines # None
        /\ lines[1].by = StageNames[1] /\ lines[1].of = textItems[1]
    /\ Len(calls) >= 2 =>
        /\ calls[2].input.by = StageNames[1]
        /\ calls[2].input = lines[1]
        /\ sections # None
        /\ sections[1].by = StageNames[2] /\ sections[1].of = lines[1]
    /\ Len(calls) >= 3 =>
        /\ calls[3].input.by = StageNames[2]
        /\ calls[3].input = sections[1]
        /\ resume # None
        /\ resume[1].by = StageNames[3] /\ resume[1].of = sections[1]
    /\ (lines = None) = (Len(calls) < 1)
    /\ (sections = None) = (Len(calls) < 2)
    /\ (resume = None) = (Len(calls) < 3)
    /\ pc = "resolved" => (Len(calls) = 3 /\ readCalls = 1 /\ requests = 1)

C4_Witness ==
    /\ pc = "resolved"
    /\ entry = "parseResumeFromPdf"
    /\ Len(calls) = 3
    /\ Len(textItems[1]) = 2

\* C5: when the service answers with no element, or only with elements
\* whose text is missing, empty or whitespace, the Reader resolves with the
\* empty list, nothing is raised, and the stages are called, the first of
\* them with the empty list.
C5_EmptyIsNoError ==
    (elements # None /\ \A i \in 1..Len(elements[1]) : Blank(elements[1][i])) =>
        /\ textItems = Some(<<>>)
        /\ raised = None /\ error = None /\ pc # "rejected"
        /\ Len(calls) >= 1 => calls[1].input = <<>>
        /\ pc = "resolved" => (Len(calls) = 3 /\ resume # None)

C5_Witness ==
    /\ pc = "resolved"
    /\ elements # None
    /\ Len(elements[1]) = 2
    /\ elements[1][1].text = Some(<<" ", " ">>)
    /\ elements[1][2].text = Some(<<>>)
    /\ textItems = Some(<<>>)

\* C9: every fragment the Reader returns has hasEOL = true and fontName
\* 'UnknownFont', the isEmptySpace filter removes none, and the list
\* readDocument returns is the list convertUnstructuredToTextItems made.
C9_AlwaysEndOfLine ==
    textItems # None =>
        /\ \A i \in 1..Len(textItems[1]) :
            /\ textItems[1][i].hasEOL = TRUE
            /\ textItems[1][i].fontName = "UnknownFont"
        /\ textItems[1] = convertUnstructuredToTextItems(elements[1])

C9_Witness ==
    /\ pc = "groupTextItemsIntoLines"
    /\ Len(elements[1]) = 2
    /\ Len(textItems[1]) = 2
    /\ textItems[1][1].y # textItems[1][2].y

HasPiece(e, piece) == \E i \in 1..Len(e.message) : e.message[i] = piece

\* C10: through readPdf, a failed download is rejected with the prefix
\* 'Failed to read PDF from URL: ' before readDocument or the service is
\* ever called; a rejection of readDocument arrives with the prefix
\* 'Failed to read document: ' and without the readPdf prefix; no error
\* carries both.
C10_ReadPdfWrapsDownloadOnly ==
    (entry = "parseResumeFromPdf" /\ pc = "rejected") =>
        /\ failedAt = "download" =>
            /\ readCalls = 0 /\ requests = 0
            /\ error[1].isError => error[1].message[1] = "Failed to read PDF from URL: "
        /\ failedAt # "download" =>
            /\ readCalls = 1
            /\ ~HasPiece(error[1], "Failed to read PDF from URL: ")
            /\ error[1].isError => error[1].message[1] = "Failed to read document: "
        /\ ~(/\ HasPiece(error[1], "Failed to read PDF from URL: ")
             /\ HasPiece(error[1], "Failed to read document: "))

C10_Witness ==
    /\ entry = "parseResumeFromPdf"
    /\ pc = "rejected"
    /\ failedAt = "apiKey"
    /\ error[1].message[1] = "Failed to read document: "

----------------------------------------------------------------------------
(* Properties of convertUnstructuredToTextItems.                           *)

\* an element that carries a non-empty point list
Boxed(element) ==
    /\ element.metadata # None
    /\ element.metadata[1].coordinates # None
    /\ element.metadata[1].coordinates[1].points # None
    /\ element.metadata[1].coordinates[1].points[1] # <<>>

PointsOf(element) == Range(element.metadata[1].coordinates[1].points[1])

SetMin(S) == CHOOSE m \in S : \A v \in S : m <= v

SetMax(S) == CHOOSE m \in S : \A v \in S : m >= v

MinX(element) == SetMin({p[1] : p \in PointsOf(element)})

MaxX(element) == SetMax({p[1] : p \in PointsOf(element)})

MinY(element) == SetMin({p[2] : p \in PointsOf(element)})

MaxY(element) == SetMax({p[2] : p \in PointsOf(element)})

\* layout_height, or 792 when it is missing or 0
PageHeightOf(element) ==
    LET h == element.metadata[1].coordinates[1].layout_height
    IN  IF h = None \/ h = Some(0) THEN 792 ELSE h[1]

Converted == pc = "converted" /\ textItems # None

\* C6: every fragment convertUnstructuredToTextItems makes has
\* width >= 0 and height >= 0: 100 and 12 for an element without a
\* non-empty point list, the extent of the points otherwise, 0 for a single
\* point or coinciding points.
C6_NonNegativeExtent ==
    Converted =>
        /\ \A i \in 1..Len(textItems[1]) :
            /\ textItems[1][i].width >= 0
            /\ textItems[1][i].height >= 0
        /\ Len(textItems[1]) = Len(NonBlank(elements[1]))
        /\ \A i \in 1..Len(textItems[1]) :
            LET el == NonBlank(elements[1])[i]
            IN  /\ ~Boxed(el) =>
                    (textItems[1][i].width = 100 /\ textItems[1][i].height = 12)
                /\ (Boxed(el) /\ Cardinality(PointsOf(el)) = 1) =>
                    (textItems[1][i].width = 0 /\ textItems[1][i].height = 0)

C6_Witness ==
    /\ Converted
    /\ Len(textItems[1]) = 2
    /\ elements[1][1].metadata # None
    /\ elements[1][1].metadata[1].coordinates # None
    /\ elements[1][1].metadata[1].coordinates[1].points
          = Some(<< <<540, 120>>, <<36, 700>> >>)
    /\ textItems[1][1].width = 504
    /\ textItems[1][1].height = 580
    /\ elements[1][2].metadata # None
    /\ elements[1][2].metadata[1].coordinates # None
    /\ elements[1][2].metadata[1].coordinates[1].points
          = Some(<< <<36, 700>>, <<36, 700>> >>)
    /\ textItems[1][2].width = 0

C8_BottomLeftOrigin ==
    (Converted /\ Len(textItems[1]) = Len(NonBlank(elements[1]))) =>
        LET kept == NonBlank(elements[1])
            items == textItems[1]
        IN  /\ \A i \in 1..Len(items) :
                IF Boxed(kept[i])
                THEN /\ items[i].x = MinX(kept[i])
                     /\ items[i].width = MaxX(kept[i]) - MinX(kept[i])
                     /\ items[i].height = MaxY(kept[i]) - MinY(kept[i])
                     /\ items[i].y = PageHeightOf(kept[i]) - MaxY(kept[i])
                ELSE /\ items[i].x = 0 /\ items[i].y = 0
                     /\ items[i].width = 100 /\ items[i].height = 12
            /\ \A i, j \in 1..Len(items) :
                (/\ Boxed(kept[i]) /\ Boxed(kept[j])
                 /\ PageHeightOf(kept[i]) = PageHeightOf(kept[j])
                 /\ MaxY(kept[i]) > MaxY(kept[j]))
                    => items[i].y < items[j].y

C8_Witness ==
    /\ Converted
    /\ Len(textItems[1]) = 2
    /\ Boxed(elements[1][1]) /\ Boxed(elements[1][2])
    /\ elements[1][1].metadata[1].coordinates[1].layout_height = Some(0)
    /\ elements[1][2].metadata[1].coordinates[1].layout_height = None
    /\ MaxY(elements[1][1]) = 700 /\ MaxY(elements[1][2]) = 120
    /\ textItems[1][1].y = 92
    /\ textItems[1][2].y = 672

====
